---- MODULE Spec2Model ----
(***************************************************************************)
(* A model of scripts/downscale_pixel_art.py: the pixel-grid inference and *)
(* resampling pipeline (crop_to_content, downscale) and the pure functions *)
(* it is built from.                                                       *)
(*                                                                         *)
(* Colors are 4-tuples <<r, g, b, a>> of 8-bit channels.  An image is a    *)
(* record [width, height, px] with px a function from <<x, y>> to colors.  *)
(* A bounding box is <<left, top, right, bottom>>, half-open.  An optional *)
(* value (Python's None) is the empty tuple <<>>, a present one <<v>>;     *)
(* an optional color is <<>> or the 4-tuple itself.                        *)
(***************************************************************************)
EXTENDS Integers, Sequences, FiniteSets, TLC

VARIABLES
  pc,                    \* position of the run
  mode,                  \* args.mode, or the pure function under study
  image,                 \* the decoded source image
  bbox,                  \* bbox argument of expand_to_square / infer_pixel_size
  target_size,           \* --size
  pixel_size,            \* --pixel-size
  tolerance,             \* --tolerance: <<>> (omitted) or <<tenths>>
  background_threshold,  \* --bg-threshold
  run_threshold,         \* --run-threshold
  debug_grid,            \* --debug-grid
  background_color,      \* background_color argument of infer_pixel_size
  colors,                \* colors argument of merge_palette
  result,                \* value returned by a pure function / image ready to be saved
  output_file,           \* <<>> until the main output is saved, then <<image>>
  overlay_file,          \* TRUE once the debug overlay is saved
  error                  \* "" or the kind of the exception that ended the run

vars == <<pc, mode, image, bbox, target_size, pixel_size, tolerance,
          background_threshold, run_threshold, debug_grid, background_color,
          colors, result, output_file, overlay_file, error>>

-----------------------------------------------------------------------------
(* Program constants *)

BACKGROUND_THRESHOLD == 24
RUN_LENGTH_THRESHOLD == 4

(* Bounds of the model *)

\* largest width * height of an image given to infer_pixel_size
MaxArea == 9
\* largest target size given to infer_pixel_size
MaxTarget == 2
\* largest image side given to expand_to_square
MaxDim == 4
\* longest color sequence given to merge_palette
MaxColors == 3
\* largest side of the square images given to the pipeline
MaxSide == 2

-----------------------------------------------------------------------------
(* Values *)

None == <<>>
NoColor == <<>>

Red == <<255, 0, 0, 255>>
RedClear == <<255, 0, 0, 0>>
Blue == <<0, 0, 255, 255>>
Black == <<0, 0, 0, 255>>
White == <<255, 255, 255, 255>>
Transparent == <<0, 0, 0, 0>>

Abs(n) == IF n < 0 THEN -n ELSE n
Max(a, b) == IF a >= b THEN a ELSE b
Min(a, b) == IF a <= b THEN a ELSE b

Pixels(w, h) == (0 .. w - 1) \X (0 .. h - 1)

Width(b) == b[3] - b[1]
Height(b) == b[4] - b[2]

-----------------------------------------------------------------------------
(* expand_to_square *)

ExpandToSquare(b, img_w, img_h) ==
  LET side == Max(Width(b), Height(b))
      new_left == IF b[1] + side > img_w THEN Max(0, img_w - side) ELSE b[1]
      new_top == IF b[2] + side > img_h THEN Max(0, img_h - side) ELSE b[2]
  IN  <<new_left, new_top, new_left + side, new_top + side>>

-----------------------------------------------------------------------------
(* _color_close *)

ColorClose(a, b, threshold) ==
  /\ Abs(a[1] - b[1]) <= threshold
  /\ Abs(a[2] - b[2]) <= threshold
  /\ Abs(a[3] - b[3]) <= threshold

-----------------------------------------------------------------------------
(* normalize_rgb, color_distance, merge_palette *)

\* r/255.0, g/255.0, b/255.0: the numerators of the three fractions over 255;
\* the alpha channel is dropped.
NormalizeRgb(color) == <<color[1], color[2], color[3]>>

\* The square of color_distance, in units of 1/255^2.
ColorDistanceSqNoBlue(a, b) ==
  (a[1] - b[1]) * (a[1] - b[1]) + (a[2] - b[2]) * (a[2] - b[2])

ColorDistanceSq(a, b) ==
  (a[1] - b[1]) * (a[1] - b[1]) + (a[2] - b[2]) * (a[2] - b[2])
    + (a[3] - b[3]) * (a[3] - b[3])

\* color_distance(a, b) <= threshold, the threshold given in tenths:
\* sqrt(d2)/255 <= t/10  iff  t >= 0 and 100*d2 <= t*t*255*255.
WithinThresholdStrict(a, b, tenths) ==
  tenths >= 0 /\ 100 * ColorDistanceSq(a, b) < tenths * tenths * 255 * 255

WithinThreshold(a, b, tenths) ==
  tenths >= 0 /\ 100 * ColorDistanceSq(a, b) <= tenths * tenths * 255 * 255

\* The first palette entry within the threshold of `normalized`, 0 if none.
FirstMatch(palette, normalized, tenths) ==
  LET hits == {i \in 1 .. Len(palette) :
                 WithinThreshold(normalized, palette[i][1], tenths)}
  IN  IF hits = {} THEN 0 ELSE CHOOSE i \in hits : \A j \in hits : i <= j

\* The state of merge_palette's loop after the first n colors.
RECURSIVE MergeLoop(_, _, _)
MergeLoop(cs, n, tenths) ==
  IF n = 0 THEN [merged |-> <<>>, palette |-> <<>>]
  ELSE LET before == MergeLoop(cs, n - 1, tenths)
           color == cs[n]
           normalized == NormalizeRgb(color)
           hit == FirstMatch(before.palette, normalized, tenths)
       IN  IF hit = 0
           THEN [merged |-> Append(before.merged, color),
                 palette |-> Append(before.palette, <<normalized, color>>)]
           ELSE [merged |-> Append(before.merged, before.palette[hit][2]),
                 palette |-> before.palette]

MergePalette(cs, tenths) == MergeLoop(cs, Len(cs), tenths).merged

-----------------------------------------------------------------------------
(* detect_background_color *)

\* sorted(s)[k], k counted from 0.
SortedAt(s, k) ==
  CHOOSE v \in {s[i] : i \in 1 .. Len(s)} :
    /\ Cardinality({i \in 1 .. Len(s) : s[i] < v}) <= k
    /\ k < Cardinality({i \in 1 .. Len(s) : s[i] <= v})

Channel(s, c) == [i \in 1 .. Len(s) |-> s[i][c]]

Median(s) ==
  LET mid == Len(s) \div 2
  IN  IF Len(s) % 2 = 0
      THEN (SortedAt(s, mid - 1) + SortedAt(s, mid)) \div 2
      ELSE SortedAt(s, mid)

\* The border pixels in the order the two loops append them.
BorderCandidates(img) ==
  LET w == img.width
      h == img.height
  IN  [i \in 1 .. 2 * w |->
         IF i % 2 = 1 THEN img.px[<<(i - 1) \div 2, 0>>]
                      ELSE img.px[<<(i - 1) \div 2, h - 1>>]]
      \o
      [i \in 1 .. 2 * h |->
         IF i % 2 = 1 THEN img.px[<<0, (i - 1) \div 2>>]
                      ELSE img.px[<<w - 1, (i - 1) \div 2>>]]

IsOpaqueCandidate(c) == c[4] >= 250

DetectBackgroundColor(img) ==
  LET all == BorderCandidates(img)
      opaque == SelectSeq(all, IsOpaqueCandidate)
      bg_candidates == IF opaque # <<>> THEN opaque ELSE all
  IN  IF bg_candidates = <<>> THEN <<0, 0, 0, 0>>
      ELSE <<Median(Channel(bg_candidates, 1)),
             Median(Channel(bg_candidates, 2)),
             Median(Channel(bg_candidates, 3)),
             255>>

-----------------------------------------------------------------------------
(* infer_pixel_size *)

\* list(range(start, stop, step)), step > 0
RangeStep(start, stop, step) ==
  LET n == IF stop > start THEN (stop - start + step - 1) \div step ELSE 0
  IN  [i \in 1 .. n |-> start + (i - 1) * step]

\* s[:n]
Take(s, n) == IF Len(s) <= n THEN s ELSE SubSeq(s, 1, n)

\* round(a / float(b)) for a >= 0 and b > 0: halves go to the even neighbour.
RoundHalfEven(a, b) ==
  LET q == a \div b
      r == a % b
  IN  IF 2 * r < b THEN q
      ELSE IF 2 * r > b THEN q + 1
      ELSE IF q % 2 = 0 THEN q ELSE q + 1

\* round(a / float(b)) for a >= 0 and b # 0
RoundDiv(a, b) == IF b > 0 THEN RoundHalfEven(a, b) ELSE -RoundHalfEven(a, -b)

ExpectedSize(width, height, target) == Max(1, RoundDiv(Max(width, height), target))

\* One iteration of the loop of collect_run_lengths over `color`.
RunStep(st, color, bgc, run_thr, bg_thr) ==
  LET is_bg == bgc # NoColor /\ ColorClose(color, bgc, bg_thr)
  IN  IF ~st.has_last
      THEN [has_last |-> TRUE, last |-> color, last_is_bg |-> is_bg,
            length |-> IF is_bg THEN 0 ELSE 1, runs |-> st.runs]
      ELSE IF is_bg
      THEN [st EXCEPT !.runs = IF ~st.last_is_bg /\ st.length > 0
                               THEN Append(@, st.length) ELSE @,
                      !.last = color, !.last_is_bg = TRUE, !.length = 0]
      ELSE IF st.last_is_bg
      THEN [st EXCEPT !.last = color, !.last_is_bg = FALSE, !.length = 1]
      ELSE IF ColorClose(color, st.last, run_thr)
      THEN [st EXCEPT !.length = @ + 1]
      ELSE [st EXCEPT !.runs = Append(@, st.length), !.last = color, !.length = 1]

\* The loop of collect_run_lengths after the first n colors of `line`; runs
\* holds what the loop has appended so far.
RECURSIVE RunLoop(_, _, _, _, _)
RunLoop(line, n, bgc, run_thr, bg_thr) ==
  IF n = 0
  THEN [has_last |-> FALSE, last |-> NoColor, last_is_bg |-> FALSE,
        length |-> 0, runs |-> <<>>]
  ELSE RunStep(RunLoop(line, n - 1, bgc, run_thr, bg_thr), line[n],
               bgc, run_thr, bg_thr)

\* collect_run_lengths(line): `runs` with the runs of `line` appended.
CollectRunLengths(runs, line, bgc, run_thr, bg_thr) ==
  LET st == RunLoop(line, Len(line), bgc, run_thr, bg_thr)
  IN  runs \o (IF st.length > 0 /\ ~st.last_is_bg
               THEN Append(st.runs, st.length) ELSE st.runs)

RECURSIVE CollectLines(_, _, _, _, _)
CollectLines(lines, n, bgc, run_thr, bg_thr) ==
  IF n = 0 THEN <<>>
  ELSE CollectRunLengths(CollectLines(lines, n - 1, bgc, run_thr, bg_thr),
                         lines[n], bgc, run_thr, bg_thr)

SampleRows(b) ==
  LET rows == Take(RangeStep(b[2], b[4], Max(1, Height(b) \div 8)), 16)
  IN  IF rows = <<>> THEN <<b[2] + Height(b) \div 2>> ELSE rows

SampleCols(b) ==
  LET cols == Take(RangeStep(b[1], b[3], Max(1, Width(b) \div 8)), 16)
  IN  IF cols = <<>> THEN <<b[1] + Width(b) \div 2>> ELSE cols

\* The runs collected over the sampled rows, then the sampled columns.
CollectedRuns(img, b, bgc, run_thr, bg_thr) ==
  LET rows == SampleRows(b)
      cols == SampleCols(b)
      row_lines == [i \in 1 .. Len(rows) |->
                      [k \in 1 .. Width(b) |-> img.px[<<b[1] + k - 1, rows[i]>>]]]
      col_lines == [i \in 1 .. Len(cols) |->
                      [k \in 1 .. Height(b) |-> img.px[<<cols[i], b[2] + k - 1>>]]]
      lines == row_lines \o col_lines
  IN  CollectLines(lines, Len(lines), bgc, run_thr, bg_thr)

InWindowStrict(r, expected_size) ==
  Max(1, expected_size \div 4) < r /\ r < expected_size * 4

InWindow(r, expected_size) ==
  Max(1, expected_size \div 4) <= r /\ r <= expected_size * 4

FilteredRuns(runs, expected_size) ==
  LET Keep(r) == InWindow(r, expected_size)
  IN  SelectSeq(runs, Keep)

Frequency(filtered, v) == Cardinality({i \in 1 .. Len(filtered) : filtered[i] = v})

\* The key of max(histogram.items(), key=...)
HistogramKeyLargest(filtered, v, expected_size) ==
  <<Frequency(filtered, v), -Abs(v - expected_size), v>>

HistogramKey(filtered, v, expected_size) ==
  <<Frequency(filtered, v), -Abs(v - expected_size), -v>>

\* Python's tuple order on 3-tuples of integers.
KeyLess(a, b) ==
  \/ a[1] < b[1]
  \/ a[1] = b[1] /\ a[2] < b[2]
  \/ a[1] = b[1] /\ a[2] = b[2] /\ a[3] < b[3]

\* dominant_value: the key of the maximal histogram item (keys are pairwise
\* distinct, so the maximum is unique).
DominantValue(filtered, expected_size) ==
  LET values == {filtered[i] : i \in 1 .. Len(filtered)}
  IN  CHOOSE v \in values :
        \A u \in values \ {v} :
          KeyLess(HistogramKey(filtered, u, expected_size),
                  HistogramKey(filtered, v, expected_size))

ClampInferredNoUpper(inferred, width, height) == Max(1, inferred)

ClampInferred(inferred, width, height) ==
  Min(Max(1, inferred), Max(1, Min(width, height)))

\* infer_pixel_size, for target # 0 (the division raises on 0).
InferPixelSize(img, b, target, bgc, run_thr, bg_thr) ==
  LET expected_size == ExpectedSize(Width(b), Height(b), target)
      runs == CollectedRuns(img, b, bgc, run_thr, bg_thr)
      filtered == FilteredRuns(runs, expected_size)
  IN  IF filtered = <<>> THEN expected_size
      ELSE ClampInferred(DominantValue(filtered, expected_size), Width(b), Height(b))

-----------------------------------------------------------------------------
(* detect_content_bbox *)

MinOf(S) == CHOOSE v \in S : \A u \in S : v <= u
MaxOf(S) == CHOOSE v \in S : \A u \in S : v >= u

\* The tight half-open box around a non-empty set of pixel coordinates.
BoxAround(ps) ==
  <<MinOf({p[1] : p \in ps}), MinOf({p[2] : p \in ps}),
    MaxOf({p[1] : p \in ps}) + 1, MaxOf({p[2] : p \in ps}) + 1>>

Alphas(img) == {img.px[p][4] : p \in DOMAIN img.px}

\* alpha.getbbox(): the box around the pixels of non-zero alpha
AlphaBBox(img) == BoxAround({p \in DOMAIN img.px : img.px[p][4] # 0})

\* The pixels the background-color scan counts as content.
ContentPixels(img, threshold) ==
  LET bg == DetectBackgroundColor(img)
  IN  {p \in DOMAIN img.px : ~ColorClose(img.px[p], bg, threshold)}

\* [ok |-> TRUE, bbox |-> b], or ok |-> FALSE where the code raises ValueError.
DetectContentBBox(img, threshold) ==
  IF MaxOf(Alphas(img)) = 0 THEN [ok |-> FALSE, bbox |-> <<>>]
  ELSE IF MinOf(Alphas(img)) < 255 THEN [ok |-> TRUE, bbox |-> AlphaBBox(img)]
  ELSE LET content == ContentPixels(img, threshold)
       IN  IF content = {} THEN [ok |-> FALSE, bbox |-> <<>>]
           ELSE [ok |-> TRUE, bbox |-> BoxAround(content)]

-----------------------------------------------------------------------------
(* make_background_transparent, for threshold >= 0 *)

MakeBackgroundTransparent(img, bgc, threshold) ==
  [img EXCEPT !.px =
     [p \in DOMAIN img.px |->
        LET pixel == img.px[p]
        IN  IF pixel[4] = 0 THEN pixel
            ELSE IF ColorClose(pixel, bgc, threshold)
            THEN <<pixel[1], pixel[2], pixel[3], 0>>
            ELSE pixel]]

\* image.crop(bbox)
Crop(img, b) ==
  [width |-> Width(b), height |-> Height(b),
   px |-> [p \in Pixels(Width(b), Height(b)) |-> img.px[<<b[1] + p[1], b[2] + p[2]>>]]]

-----------------------------------------------------------------------------
(* align_sample_region, sample_centers, write_output *)

\* "" when the region is returned, else the message of the ValueError raised.
AlignError(square, target, img_w, img_h, psize) ==
  LET sample_size == psize * target
  IN  IF psize <= 0 THEN "Pixel size must be positive."
      ELSE IF sample_size > img_w \/ sample_size > img_h
      THEN "Grid does not fit inside the source image"
      ELSE IF square[1] + sample_size > img_w \/ square[2] + sample_size > img_h
      THEN "Grid anchored at content top/left exceeds image bounds"
      ELSE ""

AlignSampleRegion(square, target, img_w, img_h, psize) ==
  <<square[1], square[2], square[1] + psize * target, square[2] + psize * target>>

\* int((index + 0.5) * pixel_size), for index >= 0 and pixel_size > 0
CellCenter(index, psize) == ((2 * index + 1) * psize) \div 2

\* The samples in row-major order; none when target <= 0.
SampleCenters(img, region, target, psize) ==
  [i \in 1 .. (IF target > 0 THEN target * target ELSE 0) |->
     LET x_index == (i - 1) % target
         y_index == (i - 1) \div target
         x == Min(Max(CellCenter(x_index, psize) + region[1], 0), img.width - 1)
         y == Min(Max(CellCenter(y_index, psize) + region[2], 0), img.height - 1)
     IN  img.px[<<x, y>>]]

\* The background clearing of downscale's output pixels.
ClearBackground(pixels, bgc, threshold) ==
  IF bgc = NoColor THEN pixels
  ELSE [i \in 1 .. Len(pixels) |->
          LET p == pixels[i]
          IN  IF p[4] # 0 /\ ColorClose(p, bgc, threshold)
              THEN <<p[1], p[2], p[3], 0>> ELSE p]

\* The size x size image that write_output fills with `pixels`, for size >= 0.
OutputImage(size, pixels) ==
  [width |-> size, height |-> size,
   px |-> [p \in Pixels(size, size) |-> pixels[p[2] * size + p[1] + 1]]]

-----------------------------------------------------------------------------
(* crop_to_content and downscale, up to the first save *)

\* "" when crop_to_content reaches its save, else the exception raised before.
CropError(img, threshold, target) ==
  IF ~DetectContentBBox(img, threshold).ok THEN "ValueError"
  ELSE IF threshold < 0 THEN "ValueError"
  ELSE IF target = 0 THEN "ZeroDivisionError"
  ELSE ""

\* The image crop_to_content saves and the pixel size it infers.
CropResult(img, threshold, target, run_thr) ==
  LET bgc == DetectBackgroundColor(img)
      box == DetectContentBBox(img, threshold).bbox
      cropped == MakeBackgroundTransparent(Crop(img, box), bgc, threshold)
  IN  [image |-> cropped,
       pixel_size |-> InferPixelSize(cropped, <<0, 0, cropped.width, cropped.height>>,
                                     target, bgc, run_thr, threshold)]

DownscaleBackground(img) ==
  IF MinOf(Alphas(img)) = 255 /\ MaxOf(Alphas(img)) = 255
  THEN DetectBackgroundColor(img) ELSE NoColor

\* "" when downscale reaches write_output, else the exception raised before.
DownscaleError(img, target, psize, threshold) ==
  LET found == DetectContentBBox(img, threshold)
  IN  IF ~found.ok THEN "ValueError"
      ELSE IF AlignError(ExpandToSquare(found.bbox, img.width, img.height),
                         target, img.width, img.height, psize) # ""
      THEN "ValueError"
      ELSE ""

\* The pixels downscale hands to write_output, and the region it sampled.
DownscaleResult(img, target, psize, tol, threshold) ==
  LET bgc == DownscaleBackground(img)
      box == DetectContentBBox(img, threshold).bbox
      square == ExpandToSquare(box, img.width, img.height)
      sample_region == AlignSampleRegion(square, target, img.width, img.height, psize)
      centers == SampleCenters(img, sample_region, target, psize)
      output_pixels == IF tol = None THEN centers ELSE MergePalette(centers, tol[1])
  IN  [pixels |-> ClearBackground(output_pixels, bgc, threshold),
       region |-> sample_region,
       pixel_size |-> psize]

-----------------------------------------------------------------------------
(* Specification of expand_to_square as a pure function *)

Unused == <<>>

BBoxes(w, h) ==
  {b \in (0 .. w) \X (0 .. h) \X (0 .. w) \X (0 .. h) : b[1] < b[3] /\ b[2] < b[4]}

\* An image of which only the size is read.
BlankImage(w, h) == [width |-> w, height |-> h, px |-> [p \in Pixels(w, h) |-> Transparent]]

InitSquare ==
  /\ pc = "start"
  /\ mode = "expand_to_square"
  /\ \E w \in 1 .. MaxDim, h \in 1 .. MaxDim :
       /\ image = BlankImage(w, h)
       /\ bbox \in BBoxes(w, h)
  /\ target_size = 0
  /\ pixel_size = 0
  /\ tolerance = None
  /\ background_threshold = BACKGROUND_THRESHOLD
  /\ run_threshold = RUN_LENGTH_THRESHOLD
  /\ debug_grid = FALSE
  /\ background_color = NoColor
  /\ colors = <<>>
  /\ result = Unused
  /\ output_file = <<>>
  /\ overlay_file = FALSE
  /\ error = ""

CallExpandToSquare ==
  /\ pc = "start"
  /\ mode = "expand_to_square"
  /\ result' = ExpandToSquare(bbox, image.width, image.height)
  /\ pc' = "done"
  /\ UNCHANGED <<mode, image, bbox, target_size, pixel_size, tolerance,
                 background_threshold, run_threshold, debug_grid,
                 background_color, colors, output_file, overlay_file, error>>

NextSquare == CallExpandToSquare

SpecSquare == InitSquare /\ [][NextSquare]_vars

-----------------------------------------------------------------------------
(* Specification of merge_palette as a pure function *)

MergeColors == {Black, White, Red, RedClear, Blue}

ColorSeqs(n) == UNION {[1 .. k -> MergeColors] : k \in 0 .. n}

InitMerge ==
  /\ pc = "start"
  /\ mode = "merge_palette"
  /\ image = BlankImage(1, 1)
  /\ bbox = <<0, 0, 1, 1>>
  /\ target_size = 0
  /\ pixel_size = 0
  /\ tolerance \in {<<0>>, <<10>>}
  /\ background_threshold = BACKGROUND_THRESHOLD
  /\ run_threshold = RUN_LENGTH_THRESHOLD
  /\ debug_grid = FALSE
  /\ background_color = NoColor
  /\ colors \in ColorSeqs(MaxColors)
  /\ result = Unused
  /\ output_file = <<>>
  /\ overlay_file = FALSE
  /\ error = ""

CallMergePalette ==
  /\ pc = "start"
  /\ mode = "merge_palette"
  /\ result' = MergePalette(colors, tolerance[1])
  /\ pc' = "done"
  /\ UNCHANGED <<mode, image, bbox, target_size, pixel_size, tolerance,
                 background_threshold, run_threshold, debug_grid,
                 background_color, colors, output_file, overlay_file, error>>

NextMerge == CallMergePalette

SpecMerge == InitMerge /\ [][NextMerge]_vars

-----------------------------------------------------------------------------
(* Specification of infer_pixel_size as a pure function *)

InferColors == {Red, Black}

ImageSizes(area) == {s \in (1 .. area) \X (1 .. area) : s[1] * s[2] <= area}

Images(area, palette) ==
  UNION {{[width |-> s[1], height |-> s[2], px |-> f] :
            f \in [Pixels(s[1], s[2]) -> palette]} : s \in ImageSizes(area)}

\* The whole image, and the image less its first column and first row (as far
\* as it has more than one).
Regions(img) ==
  {<<0, 0, img.width, img.height>>,
   <<Min(1, img.width - 1), Min(1, img.height - 1), img.width, img.height>>}

InitInfer ==
  /\ pc = "start"
  /\ mode = "infer_pixel_size"
  /\ image \in Images(MaxArea, InferColors)
  /\ bbox \in Regions(image)
  /\ target_size \in 1 .. MaxTarget
  /\ pixel_size = 0
  /\ tolerance = None
  /\ background_threshold = BACKGROUND_THRESHOLD
  /\ run_threshold \in {RUN_LENGTH_THRESHOLD, 255}
  /\ debug_grid = FALSE
  /\ background_color \in {NoColor, Black}
  /\ colors = <<>>
  /\ result = Unused
  /\ output_file = <<>>
  /\ overlay_file = FALSE
  /\ error = ""

CallInferPixelSize ==
  /\ pc = "start"
  /\ mode = "infer_pixel_size"
  /\ result' = InferPixelSize(image, bbox, target_size, background_color,
                              run_threshold, background_threshold)
  /\ pc' = "done"
  /\ UNCHANGED <<mode, image, bbox, target_size, pixel_size, tolerance,
                 background_threshold, run_threshold, debug_grid,
                 background_color, colors, output_file, overlay_file, error>>

NextInfer == CallInferPixelSize

SpecInfer == InitInfer /\ [][NextInfer]_vars

-----------------------------------------------------------------------------
(* Specification of the script: main, crop_to_content, downscale *)

PipelineColors == {Red, Black, Transparent}

SquareImages(side, palette) ==
  UNION {{[width |-> n, height |-> n, px |-> f] : f \in [Pixels(n, n) -> palette]} :
           n \in 1 .. side}

\* 8 x 8, the left (top) 4 x 4 block opaque red, the rest fully transparent.
ScenarioImage ==
  [width |-> 8, height |-> 8,
   px |-> [p \in Pixels(8, 8) |-> IF p[1] < 4 /\ p[2] < 4 THEN Red ELSE Transparent]]

PipelineImages(side) == SquareImages(side, PipelineColors) \cup {ScenarioImage}

\* The state at the start of main, the arguments drawn from the given sets.
Start(sizes, thresholds) ==
  /\ pc = "start"
  /\ mode \in {"crop", "downscale"}
  /\ image \in PipelineImages(MaxSide)
  /\ bbox = <<>>
  /\ target_size \in sizes
  /\ pixel_size \in IF mode = "downscale" THEN sizes ELSE {0}
  /\ tolerance \in IF mode = "downscale" THEN {None, <<0>>, <<10>>} ELSE {None}
  /\ background_threshold \in thresholds
  /\ run_threshold = RUN_LENGTH_THRESHOLD
  /\ debug_grid \in BOOLEAN
  /\ background_color = NoColor
  /\ colors = <<>>
  /\ result = Unused
  /\ output_file = <<>>
  /\ overlay_file = FALSE
  /\ error = ""

\* Runs with positive sizes and the default background threshold.
Init == Start(1 .. MaxSide, {BACKGROUND_THRESHOLD})

\* Runs with any sizes and thresholds, non-positive ones included.
InitAnyArgs == Start(-1 .. MaxSide, {-1, 0, BACKGROUND_THRESHOLD})

Args == <<mode, image, bbox, target_size, pixel_size, tolerance,
          background_threshold, run_threshold, debug_grid, background_color, colors>>

Fail(kind) ==
  /\ pc' = "failed"
  /\ error' = kind

\* Image.open(input_path).convert("RGBA"): the decode fails or gives `image`.
OpenImage ==
  /\ pc = "start"
  /\ mode \in {"crop", "downscale"}
  /\ \E decoded \in BOOLEAN :
       IF decoded THEN pc' = "opened" /\ error' = error
       ELSE Fail("DecodeError")
  /\ UNCHANGED <<Args, result, output_file, overlay_file>>

\* crop_to_content from detect_background_color to infer_pixel_size
CropCompute ==
  /\ pc = "opened"
  /\ mode = "crop"
  /\ LET err == CropError(image, background_threshold, target_size)
     IN  IF err # ""
         THEN Fail(err) /\ result' = result
         ELSE /\ result' = CropResult(image, background_threshold, target_size,
                                      run_threshold)
              /\ pc' = "computed"
              /\ error' = error
  /\ UNCHANGED <<Args, output_file, overlay_file>>

\* cropped.save(output_path)
CropSave ==
  /\ pc = "computed"
  /\ mode = "crop"
  /\ \E saved \in BOOLEAN :
       IF saved
       THEN /\ output_file' = <<result.image>>
            /\ pc' = IF debug_grid THEN "saved" ELSE "done"
            /\ error' = error
       ELSE Fail("WriteError") /\ output_file' = output_file
  /\ UNCHANGED <<Args, result, overlay_file>>

\* write_grid_overlay(cropped, inferred_pixel_size, grid_path)
CropGridOverlay ==
  /\ pc = "saved"
  /\ mode = "crop"
  /\ IF result.pixel_size <= 0
     THEN Fail("ValueError") /\ overlay_file' = overlay_file
     ELSE \E saved \in BOOLEAN :
            IF saved
            THEN overlay_file' = TRUE /\ pc' = "done" /\ error' = error
            ELSE Fail("WriteError") /\ overlay_file' = overlay_file
  /\ UNCHANGED <<Args, result, output_file>>

\* downscale from the alpha extrema to the background clearing
DownscaleCompute ==
  /\ pc = "opened"
  /\ mode = "downscale"
  /\ LET err == DownscaleError(image, target_size, pixel_size, background_threshold)
     IN  IF err # ""
         THEN Fail(err) /\ result' = result
         ELSE /\ result' = DownscaleResult(image, target_size, pixel_size, tolerance,
                                           background_threshold)
              /\ pc' = "computed"
              /\ error' = error
  /\ UNCHANGED <<Args, output_file, overlay_file>>

\* write_output(output_path, target_size, output_pixels): Image.new raises on a
\* negative size; the save fails or succeeds.
DownscaleWrite ==
  /\ pc = "computed"
  /\ mode = "downscale"
  /\ IF target_size < 0
     THEN Fail("ValueError") /\ output_file' = output_file
     ELSE \E saved \in BOOLEAN :
            IF saved
            THEN /\ output_file' = <<OutputImage(target_size, result.pixels)>>
                 /\ pc' = IF debug_grid THEN "saved" ELSE "done"
                 /\ error' = error
            ELSE Fail("WriteError") /\ output_file' = output_file
  /\ UNCHANGED <<Args, result, overlay_file>>

\* write_debug_overlay(image, sample_region, aligned_pixel_size, ...)
DownscaleDebugOverlay ==
  /\ pc = "saved"
  /\ mode = "downscale"
  /\ \E saved \in BOOLEAN :
       IF saved
       THEN overlay_file' = TRUE /\ pc' = "done" /\ error' = error
       ELSE Fail("WriteError") /\ overlay_file' = overlay_file
  /\ UNCHANGED <<Args, result, output_file>>

Next ==
  \/ OpenImage
  \/ CropCompute
  \/ CropSave
  \/ CropGridOverlay
  \/ DownscaleCompute
  \/ DownscaleWrite
  \/ DownscaleDebugOverlay

Spec == Init /\ [][Next]_vars

SpecAnyArgs == InitAnyArgs /\ [][Next]_vars

-----------------------------------------------------------------------------
(* Claims about expand_to_square *)

IsSquare(b) == Width(b) = Height(b)
InsideImage(b, w, h) == 0 <= b[1] /\ 0 <= b[2] /\ b[3] <= w /\ b[4] <= h

\* C1: for every image size and every valid bbox, expand_to_square returns a
\* square that lies fully inside the image.
C1_SquareInsideImage ==
  (pc = "done" /\ mode = "expand_to_square") =>
    /\ IsSquare(result)
    /\ InsideImage(result, image.width, image.height)

-----------------------------------------------------------------------------
(* Claims about merge_palette *)

Clusters(cs, tenths) == Len(MergeLoop(cs, Len(cs), tenths).palette)

MergeDone == pc = "done" /\ mode = "merge_palette"

\* C4 as stated: for every non-empty input, merge_palette with tolerance 1.0
\* creates exactly one cluster and returns the first input color everywhere.
C4_ToleranceOneCollapsesAll ==
  (MergeDone /\ tolerance = <<10>> /\ Len(colors) >= 1) =>
    /\ Clusters(colors, 10) = 1
    /\ Len(result) = Len(colors)
    /\ \A i \in 1 .. Len(result) : result[i] = colors[1]

\* Every color lies within Euclidean distance 1.0 of the first, in normalized RGB.
AllWithinOneOfFirst(cs) ==
  \A i \in 1 .. Len(cs) :
    (cs[i][1] - cs[1][1]) * (cs[i][1] - cs[1][1])
      + (cs[i][2] - cs[1][2]) * (cs[i][2] - cs[1][2])
      + (cs[i][3] - cs[1][3]) * (cs[i][3] - cs[1][3]) <= 255 * 255

\* C4 amended: for every non-empty input all of whose colors lie within
\* distance 1.0 of the first color, merge_palette with tolerance 1.0 creates
\* exactly one cluster and returns the first input color everywhere.
C4_ToleranceOneCollapsesNear ==
  (MergeDone /\ tolerance = <<10>> /\ Len(colors) >= 1 /\ AllWithinOneOfFirst(colors)) =>
    /\ Clusters(colors, 10) = 1
    /\ Len(result) = Len(colors)
    /\ \A i \in 1 .. Len(result) : result[i] = colors[1]

\* C4 witness: a merge at tolerance 1.0 of colors at distance exactly 1.0 from the first.
C4_Witness ==
  /\ MergeDone /\ tolerance = <<10>>
  /\ colors = <<Black, Red, Blue>>
  /\ result = <<Black, Black, Black>>

\* C5 as stated: with tolerance 0 the output equals the input in all four
\* channels, alpha included.
C5_ToleranceZeroIdentity ==
  (MergeDone /\ tolerance = <<0>>) => result = colors

SameRgb(a, b) == a[1] = b[1] /\ a[2] = b[2] /\ a[3] = b[3]

FirstWithRgb(cs, i) == CHOOSE j \in 1 .. i : SameRgb(cs[j], cs[i]) /\ \A k \in 1 .. j - 1 : ~SameRgb(cs[k], cs[i])

\* C5 amended: with tolerance 0 the output has the input's length and equals
\* it in R, G and B; each output color is the first input color with the
\* same R, G and B, so its alpha is that earlier color's alpha.
C5_ToleranceZeroKeepsRgb ==
  (MergeDone /\ tolerance = <<0>>) =>
    /\ Len(result) = Len(colors)
    /\ \A i \in 1 .. Len(colors) :
         /\ SameRgb(result[i], colors[i])
         /\ result[i] = colors[FirstWithRgb(colors, i)]

\* C5 witness: a merge at tolerance 0 that replaces a color by an earlier one of other alpha.
C5_Witness ==
  /\ MergeDone /\ tolerance = <<0>>
  /\ colors = <<Red, Blue, RedClear>>
  /\ result = <<Red, Blue, Red>>

-----------------------------------------------------------------------------
(* Claims about infer_pixel_size *)

InferDone == pc = "done" /\ mode = "infer_pixel_size"

WholeImage == bbox = <<0, 0, image.width, image.height>>

\* The image is tiled exactly by k x k blocks of one color each.
IsTiled(img, k) ==
  /\ img.width % k = 0
  /\ img.height % k = 0
  /\ \A p \in Pixels(img.width, img.height) :
       img.px[p] = img.px[<<k * (p[1] \div k), k * (p[2] \div k)>>]

\* Blocks that share an edge differ by more than thr in some RGB channel.
AdjacentBlocksDiffer(img, k, thr) ==
  \A p \in Pixels(img.width, img.height) :
    /\ p[1] + k < img.width =>
         ~ColorClose(img.px[p], img.px[<<p[1] + k, p[2]>>], thr)
    /\ p[2] + k < img.height =>
         ~ColorClose(img.px[p], img.px[<<p[1], p[2] + k>>], thr)

PriorWithinFour(k) ==
  LET e == ExpectedSize(image.width, image.height, target_size)
  IN  e <= 4 * k /\ k <= 4 * e

\* C6 as stated: on an opaque image tiled exactly by K x K flat blocks, with
\* no background color or one distinct from all blocks, infer_pixel_size
\* over the whole image returns K whenever the prior is within 4x of K.
C6_TiledImageRecoversK ==
  \A k \in 1 .. MaxArea :
    ( /\ InferDone /\ WholeImage
      /\ IsTiled(image, k)
      /\ \A p \in DOMAIN image.px : image.px[p][4] = 255 /\ image.px[p] # background_color
      /\ PriorWithinFour(k) )
    => result = k

\* C6 amended: the same, for images in which any two blocks that share an
\* edge differ by more than the run threshold in some RGB channel and, when a
\* background color is given, no block is within the background threshold of it.
C6_TiledDistinctBlocksRecoversK ==
  \A k \in 1 .. MaxArea :
    ( /\ InferDone /\ WholeImage
      /\ IsTiled(image, k)
      /\ AdjacentBlocksDiffer(image, k, run_threshold)
      /\ \A p \in DOMAIN image.px :
           /\ image.px[p][4] = 255
           /\ background_color # NoColor =>
                ~ColorClose(image.px[p], background_color, background_threshold)
      /\ PriorWithinFour(k) )
    => result = k

\* C6 witness: two 2 x 2 blocks side by side, of different colors, recovered as size 2.
C6_Witness ==
  /\ InferDone /\ WholeImage
  /\ image.width = 4 /\ image.height = 2
  /\ IsTiled(image, 2)
  /\ AdjacentBlocksDiffer(image, 2, run_threshold)
  /\ background_color = NoColor
  /\ target_size = 2
  /\ result = 2

SurvivingRuns ==
  FilteredRuns(CollectedRuns(image, bbox, background_color, run_threshold,
                             background_threshold),
               ExpectedSize(Width(bbox), Height(bbox), target_size))

Expected == ExpectedSize(Width(bbox), Height(bbox), target_size)

Values(runs) == {runs[i] : i \in 1 .. Len(runs)}

\* Each run length of `runs` with its frequency.
Histogram(runs) == [v \in Values(runs) |-> Frequency(runs, v)]

\* v beats u: higher frequency, then nearer to the expected size e.
Beats(hist, e, v, u) ==
  \/ hist[v] > hist[u]
  \/ hist[v] = hist[u] /\ Abs(v - e) < Abs(u - e)

Tied(hist, e, v, u) == hist[v] = hist[u] /\ Abs(v - e) = Abs(u - e)

Clamped(v) == Min(Max(1, v), Max(1, Min(Width(bbox), Height(bbox))))

\* C9 as stated: the selected value has the highest frequency, then the
\* smallest distance to expectedSize, then is the LARGEST run length.
C9_TieBreakLargest ==
  InferDone =>
    LET hist == Histogram(SurvivingRuns)
        e == Expected
    IN  DOMAIN hist # {} =>
          \E v \in DOMAIN hist :
            /\ \A u \in DOMAIN hist \ {v} :
                 Beats(hist, e, v, u) \/ (Tied(hist, e, v, u) /\ v > u)
            /\ result = Clamped(v)

\* C9 amended: the selected value has the highest frequency, then the
\* smallest distance to expectedSize, then is the SMALLEST run length.
C9_TieBreakSmallest ==
  InferDone =>
    LET hist == Histogram(SurvivingRuns)
        e == Expected
    IN  DOMAIN hist # {} =>
          \E v \in DOMAIN hist :
            /\ \A u \in DOMAIN hist \ {v} :
                 Beats(hist, e, v, u) \/ (Tied(hist, e, v, u) /\ v < u)
            /\ result = Clamped(v)

\* C9 witness: two run lengths of equal, highest frequency at equal distance from the
\* expected size, the smaller one returned.
C9_Witness ==
  /\ InferDone
  /\ LET hist == Histogram(SurvivingRuns)
         e == Expected
     IN  \E v \in DOMAIN hist, u \in DOMAIN hist :
           /\ v < u /\ Tied(hist, e, v, u)
           /\ \A x \in DOMAIN hist : hist[x] <= hist[v]
           /\ u <= Min(Width(bbox), Height(bbox))
           /\ result = v

\* C10 as stated: the returned size lies in [1, min(regionWidth, regionHeight)],
\* on the histogram path and on the fallback path alike.
C10_ResultWithinMinSide ==
  InferDone => 1 <= result /\ result <= Min(Width(bbox), Height(bbox))

\* C10 amended: on the histogram path the returned size lies in
\* [1, min(regionWidth, regionHeight)]; on the fallback path it is the
\* unclamped expectedSize, which lies in [1, max(regionWidth, regionHeight)].
C10_ResultWithinSides ==
  InferDone =>
    /\ 1 <= result
    /\ IF SurvivingRuns # <<>>
       THEN result <= Min(Width(bbox), Height(bbox))
       ELSE result = Expected /\ result <= Max(Width(bbox), Height(bbox))

\* C10 witness: the fallback path returning more than the region's smaller side.
C10_Witness ==
  /\ InferDone
  /\ result > Min(Width(bbox), Height(bbox))
  /\ SurvivingRuns = <<>>

-----------------------------------------------------------------------------
(* Claims about crop_to_content and downscale *)

AllRed(w, h) == [width |-> w, height |-> h, px |-> [p \in Pixels(w, h) |-> Red]]

\* C2: on the 8 x 8 scenario image, crop_to_content with background threshold
\* 24 and target size 1 writes a 4 x 4 image whose every pixel is opaque red.
C2_ScenarioOutputOpaqueRed ==
  ( /\ mode = "crop"
    /\ image = ScenarioImage
    /\ background_threshold = BACKGROUND_THRESHOLD
    /\ target_size = 1
    /\ output_file # <<>> )
  => output_file[1] = AllRed(4, 4)

\* C3: on an N x N image with at least one content pixel, downscale with
\* target size N, pixel size 1 and no tolerance raises no error and writes an
\* image equal to the input in all four channels.
C3_RoundTripUnchanged ==
  ( /\ mode = "downscale"
    /\ image.width = target_size /\ image.height = target_size
    /\ pixel_size = 1
    /\ tolerance = None
    /\ background_threshold = BACKGROUND_THRESHOLD
    /\ DetectContentBBox(image, background_threshold).ok )
  => /\ error # "ValueError"
     /\ output_file # <<>> => output_file[1] = image

\* C7: no run with a non-positive pixel size, a non-positive background
\* threshold or a target size <= 0 gets as far as writing its output image.
C7_InvalidParametersAbort ==
  ( /\ mode \in {"crop", "downscale"}
    /\ \/ target_size <= 0
       \/ background_threshold <= 0
       \/ mode = "downscale" /\ pixel_size <= 0 )
  => output_file = <<>>

\* C8: when a run ends in an error, no output file has been written.
C8_NoFileWrittenOnError ==
  ( mode \in {"crop", "downscale"} /\ error # "" )
  => output_file = <<>> /\ ~overlay_file

====
